---- MODULE Spec2Model ----
(***************************************************************************)
(* Voice-consultation call lifecycle of the VoiceChatInterface component   *)
(* (src/src/components/voice/VoiceChatInterface.tsx).                      *)
(*                                                                         *)
(* The component is a React function component.  Every render creates new  *)
(* closures over that render's state values.  The engine handlers          *)
(* (handleMessage, handleError, handleCallStart, handleCallEndEvent) are   *)
(* registered by an effect with an empty dependency list, so they are the  *)
(* closures of the mount render for the whole life of the component; the   *)
(* handlers of buttons are the closures of the render that is on screen.   *)
(* State setters always act on the current state; reads of state inside a  *)
(* closure yield the values of the render that created the closure.        *)
(*                                                                         *)
(* Texts are sequences of tokens, optional values are sequences of length  *)
(* at most one, times are milliseconds.                                    *)
(***************************************************************************)
EXTENDS Integers, Sequences, FiniteSets, TLC

\* ------------------------------------------------------------------ bounds
\* accepted start requests
MaxSessions == 2
\* entries of messages
MaxMsgs == 2
\* transcript messages handled in one session
MaxEvents == 3
\* clock instants, after the first, at which every event is explored
HorizonTicks == 1
\* rows a table of the API routes can hold
MaxRows == 2

\* --------------------------------------------------------- program constants
GraceMs == 5000
DelayMs == 500
IntervalMs == 1000
MsPerSecond == 1000

\* resolution of the model clock: the period of the duration timer; a timer
\* fires at the first clock instant at or after its due time
TickMs == IntervalMs
\* user and engine events are explored at every clock instant up to Horizon
\* and, after it, at the instants at which no timeout is pending
Horizon == HorizonTicks * TickMs

\* ------------------------------------------------------------ optional values
None == <<>>
Some(x) == <<x>>
IsSome(o) == Len(o) > 0
Val(o) == o[1]

\* ----------------------------------------------------------------- texts
RECURSIVE Join(_, _)
\* Array.prototype.join: the texts of the list with sep between neighbours
Join(list, sep) ==
  IF Len(list) = 0 THEN <<>>
  ELSE IF Len(list) = 1 THEN list[1]
  ELSE list[1] \o sep \o Join(Tail(list), sep)

IsBlank(tok) == tok \in {" ", "\n"}

RECURSIVE TrimLeft(_)
TrimLeft(t) ==
  IF Len(t) > 0 /\ IsBlank(Head(t)) THEN TrimLeft(Tail(t)) ELSE t

RECURSIVE TrimRight(_)
TrimRight(t) ==
  IF Len(t) > 0 /\ IsBlank(t[Len(t)]) THEN TrimRight(SubSeq(t, 1, Len(t) - 1)) ELSE t

\* String.prototype.trim
Trim(t) == TrimRight(TrimLeft(t))

RECURSIVE SplitFrom(_, _, _)
\* String.prototype.split(sep) for a one-token separator: cur is the piece
\* being collected
SplitFrom(t, sep, cur) ==
  IF Len(t) = 0 THEN <<cur>>
  ELSE IF Head(t) = sep THEN <<cur>> \o SplitFrom(Tail(t), sep, <<>>)
  ELSE SplitFrom(Tail(t), sep, Append(cur, Head(t)))

Split(t, sep) == SplitFrom(t, sep, <<>>)

\* String.prototype.endsWith('.')
EndsWithPeriod(t) == Len(t) > 0 /\ t[Len(t)] \in {".", ". "}

\* --------------------------------------------------------------- input data
Roles == {"user", "assistant"}
Utterances == {<<"started 3 days ago">>, <<"worse in the morning">>, <<>>}
TranscriptTypes == {"partial", "final"}
Contexts == {<<>>, <<" ">>, <<"persistent headache for 3 days">>}
TwoSentences == <<"Patient reports mild fatigue", ". ", "Recommend rest and hydration", ".">>
Analyses == {TwoSentences}
EngineTranscript == <<"AI: hello", "\n", "User: hi">>
Reports == { [summary |-> None, transcript |-> None],
             [summary |-> Some(<<"engine summary">>), transcript |-> Some(EngineTranscript)] }
Profiles == { None, Some([city |-> "Austin", state |-> "TX"]) }

\* ------------------------------------------------------------- error texts
ErrValidation == "Please provide context about your current health concern before starting the consultation."
ErrStartFailed == "Failed to start voice consultation"
ErrEngineEvent == "Voice assistant error"
ErrEngineMessage == "Voice assistant error occurred"
ErrSaveFailed == "Failed to save consultation summary"
ErrSaveNetwork == "Failed to save consultation summary due to network error"
ErrProcess == "Failed to process consultation summary"

\* ------------------------------------------------------------------- state
VARIABLES
  isCallActive, isLoading, error, initialContext, transcript, callDuration,
  finalCallDuration, consultationSummary, showSummary, messages,
  isGeneratingSummary, vapiAnalysisSummary, endOfCallReport, userEndedCall,
  isSpeaking,
  callStartTimeRef, durationIntervalRef, intervalRunning, intervalDue,
  orphanIntervals,
  profile,
  now, engine, delivered, graceTimers, tasks,
  session, hist,
  pastConsultations, medicalConditions, response,
  contextCall, ageCall

reactState == <<isCallActive, isLoading, error, initialContext, transcript,
  callDuration, finalCallDuration, consultationSummary, showSummary, messages,
  isGeneratingSummary, vapiAnalysisSummary, endOfCallReport, userEndedCall,
  isSpeaking>>
refs == <<callStartTimeRef, durationIntervalRef, intervalRunning, intervalDue>>
env == <<now, engine, delivered, graceTimers, tasks>>
history == <<session, hist>>
\* the tables of the API routes and the response to the last request
backend == <<pastConsultations, medicalConditions, response>>
\* the last application of generatePatientContext and of calculateAge
library == <<contextCall, ageCall>>
vars == <<reactState, refs, orphanIntervals, profile, env, history, backend, library>>
\* the state of the component
component == <<reactState, refs, orphanIntervals, profile, env, history>>

Signals == {"call-start-msg", "call-end-msg", "call-end-event", "report"}
EndSignals == {"call-end-msg", "call-end-event", "report"}

\* ---------------------------------------------------------------- closures
\* the state values a closure created by the render on screen reads
CurrentRender ==
  [ isCallActive |-> isCallActive,
    isGeneratingSummary |-> isGeneratingSummary,
    endOfCallReport |-> endOfCallReport,
    vapiAnalysisSummary |-> vapiAnalysisSummary,
    messages |-> messages,
    initialContext |-> initialContext,
    finalCallDuration |-> finalCallDuration,
    callDuration |-> callDuration ]

\* the state values the engine handlers read: those of the mount render,
\* since the registering effect never runs again
MountRender ==
  [ isCallActive |-> FALSE,
    isGeneratingSummary |-> FALSE,
    endOfCallReport |-> None,
    vapiAnalysisSummary |-> None,
    messages |-> <<>>,
    initialContext |-> <<>>,
    finalCallDuration |-> 0,
    callDuration |-> 0 ]

\* ------------------------------------------------- generateConsultationSummary
\* a labelling that gives every speaker the patient's label
RoleLabelAlwaysPatient(role) == <<"Patient">>

\* msg.role === 'user' ? 'Patient' : 'AI Nurse'
RoleLabel(role) == IF role = "user" THEN <<"Patient">> ELSE <<"AI Nurse">>

MessageLine(msg) == RoleLabel(msg.role) \o <<": ">> \o msg.content

MapLines(msgs) == [i \in 1..Len(msgs) |-> MessageLine(msgs[i])]

\* messages.map(...).join('\n')
FlattenTranscript(msgs) == Join(MapLines(msgs), <<"\n">>)

IsUserMessage(msg) == msg.role = "user"

MapContent(msgs) == [i \in 1..Len(msgs) |-> msgs[i].content]

NonBlankSentence(s) == Len(Trim(s)) > 0

\* vapiAnalysisSummary.split('. ').filter(s => s.trim().length > 0)
Sentences(text) == SelectSeq(Split(text, ". "), NonBlankSentence)

WithPeriod(t) == IF EndsWithPeriod(t) THEN t ELSE Append(t, ".")

NoSymptoms == <<"No specific symptoms mentioned">>
NoDiagnosis == <<"General consultation - no diagnosis provided">>
Disclaimer == <<"This consultation was with an AI assistant and does not constitute professional medical advice. Please consult with a qualified healthcare professional for proper medical diagnosis and treatment.">>
GenericFollowUp == <<"Contact your primary care physician or local healthcare provider">>

DefaultFollowUp(prof) ==
  IF IsSome(prof)
    THEN <<"Recommended to contact local healthcare providers in ", Val(prof).city, ", ", Val(prof).state>>
    ELSE GenericFollowUp

Truthy(optText) == IsSome(optText) /\ Len(Val(optText)) > 0

ReportSummary(r) == IF IsSome(r.endOfCallReport) THEN Val(r.endOfCallReport).summary ELSE None

ReportTranscript(r) == IF IsSome(r.endOfCallReport) THEN Val(r.endOfCallReport).transcript ELSE None

\* a choice of symptoms that prefers the patient's messages to the analysis
SymptomsMessagesFirst(r) ==
  LET userMessages == SelectSeq(r.messages, IsUserMessage) IN
  IF Truthy(ReportSummary(r)) THEN Val(ReportSummary(r))
  ELSE IF Len(userMessages) > 0 THEN Join(MapContent(userMessages), <<"; ">>)
  ELSE IF Truthy(r.vapiAnalysisSummary) THEN
    LET sentences == Sentences(Val(r.vapiAnalysisSummary)) IN
      IF Len(sentences) >= 2 THEN WithPeriod(Join(SubSeq(sentences, 1, 2), <<". ">>))
      ELSE IF Len(sentences) = 1 THEN WithPeriod(sentences[1])
      ELSE NoSymptoms
  ELSE NoSymptoms

Symptoms(r) ==
  IF Truthy(ReportSummary(r)) THEN Val(ReportSummary(r))
  ELSE IF Truthy(r.vapiAnalysisSummary) THEN
    LET sentences == Sentences(Val(r.vapiAnalysisSummary)) IN
      IF Len(sentences) >= 2 THEN WithPeriod(Join(SubSeq(sentences, 1, 2), <<". ">>))
      ELSE IF Len(sentences) = 1 THEN WithPeriod(sentences[1])
      ELSE NoSymptoms
  ELSE
    LET userMessages == SelectSeq(r.messages, IsUserMessage) IN
      IF Len(userMessages) > 0 THEN Join(MapContent(userMessages), <<"; ">>)
      ELSE NoSymptoms

FollowUpContacts(r, prof) ==
  IF Truthy(ReportSummary(r)) THEN DefaultFollowUp(prof)
  ELSE IF Truthy(r.vapiAnalysisSummary) THEN
    LET sentences == Sentences(Val(r.vapiAnalysisSummary)) IN
      IF Len(sentences) > 2 THEN WithPeriod(sentences[Len(sentences)])
      ELSE DefaultFollowUp(prof)
  ELSE DefaultFollowUp(prof)

FinalTranscript(r) ==
  IF Truthy(ReportTranscript(r)) THEN Val(ReportTranscript(r))
  ELSE FlattenTranscript(r.messages)

\* finalCallDuration || callDuration
SummaryDuration(r) == IF r.finalCallDuration # 0 THEN r.finalCallDuration ELSE r.callDuration

\* the summary computed by the closure of render r: None is null
generateConsultationSummary(r, prof) ==
  IF Len(r.messages) = 0 THEN None
  ELSE Some([ summary |-> <<"Voice consultation regarding: ">> \o r.initialContext,
              symptoms |-> Symptoms(r),
              diagnosis |-> NoDiagnosis,
              followUpContacts |-> FollowUpContacts(r, prof),
              disclaimer |-> Disclaimer,
              duration |-> SummaryDuration(r),
              transcript |-> FinalTranscript(r) ])

\* -------------------------------------------------------------------- init
\* what has happened in the session begun by the last accepted start
\* request: transcript messages handled and the last of them, the final
\* transcript messages in arrival order, final utterances received, calls of
\* handleCallEnd, POST requests sent, calls of onConsultationEnd, calls of
\* vapi.stop(), grace timeouts armed, and the first value given to
\* finalCallDuration
NoHistory == [ events |-> 0, lastEvent |-> None, finals |-> <<>>, msgs |-> 0,
               callEndCalls |-> 0, posts |-> 0, notified |-> 0, stops |-> 0,
               graceArmed |-> 0, frozen |-> None,
               variableValues |-> None, dismissed |-> FALSE ]

\* the initial values of everything but the complaint, the messages and what
\* the engine has supplied
InitOther ==
  /\ isCallActive = FALSE
  /\ isLoading = FALSE
  /\ error = ""
  /\ transcript = None
  /\ callDuration = 0
  /\ finalCallDuration = 0
  /\ consultationSummary = None
  /\ showSummary = FALSE
  /\ isGeneratingSummary = FALSE
  /\ userEndedCall = FALSE
  /\ isSpeaking = FALSE
  /\ callStartTimeRef = None
  /\ durationIntervalRef = FALSE
  /\ intervalRunning = FALSE
  /\ intervalDue = 0
  /\ orphanIntervals = 0
  /\ profile \in Profiles
  /\ pastConsultations = {}
  /\ medicalConditions = <<>>
  /\ response = None
  /\ contextCall = None
  /\ ageCall = None
  /\ now = 0
  /\ engine = "idle"
  /\ delivered = {}
  /\ graceTimers = {}
  /\ tasks = {}
  /\ session = 0
  /\ hist = NoHistory

Init ==
  /\ InitOther
  /\ initialContext = <<>>
  /\ messages = <<>>
  /\ vapiAnalysisSummary = None
  /\ endOfCallReport = None

\* ---------------------------------------------------------------- rendering
\* the component returns the spinner card alone while isGeneratingSummary
GeneratingShown == isGeneratingSummary

\* the summary view, with its close button
SummaryShown == ~isGeneratingSummary /\ showSummary /\ IsSome(consultationSummary)

MainShown == ~GeneratingShown /\ ~SummaryShown

StartCardShown == MainShown /\ ~isCallActive

StartButtonEnabled == StartCardShown /\ ~(isLoading \/ Len(Trim(initialContext)) = 0)

TryAgainShown == StartCardShown /\ error = ErrStartFailed

EndButtonShown == MainShown /\ isCallActive

\* ------------------------------------------------------------------ timers
DueTimes ==
  {t.due : t \in graceTimers}
    \cup {t.due : t \in {u \in tasks : u.pc = "delay"}}
    \cup (IF intervalRunning THEN {intervalDue} ELSE {})

\* a timer fires once its delay has passed, earliest first
CanFire(due) == due <= now /\ \A d \in DueTimes : due <= d

\* the due times of the setTimeout timers
OneShotDue ==
  {t.due : t \in graceTimers} \cup {t.due : t \in {u \in tasks : u.pc = "delay"}}

\* the instants at which user and engine events are explored
InHorizon == now <= Horizon \/ OneShotDue = {}

\* Math.floor((now - start) / 1000)
Duration == (now - Val(callStartTimeRef)) \div MsPerSecond

\* time passes while some timer is waiting for it
Tick ==
  /\ IF now < Horizon THEN DueTimes # {} ELSE OneShotDue # {}
  /\ \A d \in DueTimes : d > now
  /\ now' = now + TickMs
  /\ UNCHANGED <<reactState, refs, isSpeaking, profile, orphanIntervals, backend, library, engine, delivered, graceTimers,
                 tasks, history>>

\* the setInterval callback of startDurationTimer
IntervalTick ==
  /\ intervalRunning
  /\ CanFire(intervalDue)
  /\ callDuration' = IF IsSome(callStartTimeRef) THEN Duration ELSE callDuration
  /\ intervalDue' = intervalDue + IntervalMs
  /\ UNCHANGED <<isCallActive, isLoading, error, initialContext, transcript,
                 finalCallDuration, consultationSummary, showSummary, messages,
                 isGeneratingSummary, vapiAnalysisSummary, endOfCallReport,
                 userEndedCall, callStartTimeRef, durationIntervalRef,
                 intervalRunning, isSpeaking, profile, orphanIntervals, backend, library, env, history>>

\* startDurationTimer without the clearInterval of lines 269-271
startDurationTimerWithoutClear ==
  /\ orphanIntervals' = (IF intervalRunning THEN orphanIntervals + 1 ELSE orphanIntervals)
  /\ durationIntervalRef' = TRUE
  /\ intervalRunning' = TRUE
  /\ intervalDue' = now + IntervalMs

\* startDurationTimer: clear the interval the ref holds, then start a new one
startDurationTimer ==
  /\ orphanIntervals' = (IF intervalRunning /\ ~durationIntervalRef
                           THEN orphanIntervals + 1 ELSE orphanIntervals)
  /\ durationIntervalRef' = TRUE
  /\ intervalRunning' = TRUE
  /\ intervalDue' = now + IntervalMs

\* if (durationIntervalRef.current) clearInterval(durationIntervalRef.current)
clearDurationInterval ==
  /\ intervalRunning' = (IF durationIntervalRef THEN FALSE ELSE intervalRunning)
  /\ UNCHANGED <<durationIntervalRef, intervalDue>>

\* the same, followed by durationIntervalRef.current = null
clearAndResetInterval ==
  /\ intervalRunning' = (IF durationIntervalRef THEN FALSE ELSE intervalRunning)
  /\ durationIntervalRef' = FALSE
  /\ UNCHANGED intervalDue

\* ------------------------------------------------------------ handleCallEnd
\* the call of handleCallEnd by the closure of render r: it runs up to its
\* first await, the 500 ms delay.  atCall records the state at the call:
\* the final utterances of the session, messages and finalCallDuration
handleCallEnd(r, sess, trigger) ==
  tasks' = tasks \cup {[ sess |-> sess, trigger |-> trigger, closure |-> r,
                         due |-> now + DelayMs, pc |-> "delay",
                         atCall |-> [ msgs |-> hist.msgs, messages |-> messages,
                                      duration |-> finalCallDuration' ] ]}

\* setFinalCallDuration(duration); setCallDuration(duration), when the call
\* start time is known
captureFinalDuration ==
  /\ finalCallDuration' = (IF IsSome(callStartTimeRef) THEN Duration ELSE finalCallDuration)
  /\ callDuration' = (IF IsSome(callStartTimeRef) THEN Duration ELSE callDuration)

FrozenAfter == IF IsSome(hist.frozen) THEN hist.frozen ELSE Some(finalCallDuration')

\* book-keeping of a termination that is acted upon in session sess
Finalizing(sess) ==
  hist' = IF sess = session
            THEN [hist EXCEPT !.callEndCalls = @ + 1, !.frozen = FrozenAfter]
            ELSE hist

\* the finally block of handleCallEnd
Finally(t) ==
  /\ isGeneratingSummary' = FALSE
  /\ showSummary' = TRUE
  /\ tasks' = tasks \ {t}

\* handleCallEnd after the delay: the summary is computed by the closure that
\* called it; a non-null summary is stored and posted
HandleCallEndResume(t) ==
  /\ t \in tasks
  /\ t.pc = "delay"
  /\ CanFire(t.due)
  /\ LET summary == generateConsultationSummary(t.closure, profile) IN
       IF IsSome(summary)
         THEN /\ consultationSummary' = summary
              /\ tasks' = (tasks \ {t}) \cup {[t EXCEPT !.pc = "fetch"]}
              /\ hist' = (IF t.sess = session THEN [hist EXCEPT !.posts = @ + 1] ELSE hist)
              /\ UNCHANGED <<isGeneratingSummary, showSummary>>
         ELSE /\ Finally(t)
              /\ UNCHANGED <<consultationSummary, hist>>
  /\ UNCHANGED <<isCallActive, isLoading, error, initialContext, transcript,
                 callDuration, finalCallDuration, messages, vapiAnalysisSummary,
                 endOfCallReport, userEndedCall, refs, isSpeaking, profile, orphanIntervals, backend, library, now, engine,
                 delivered, graceTimers, session>>

FetchOutcomes == {"ok", "rejected", "network"}

\* a handleCallEnd whose spinner reset and outcome display sit after the
\* request in the try block, not in a finally block
FetchSettledWithoutFinally(t, outcome) ==
  /\ t \in tasks
  /\ t.pc = "fetch"
  /\ error' = CASE outcome = "ok" -> error
                [] outcome = "rejected" -> ErrSaveFailed
                [] outcome = "network" -> ErrSaveNetwork
  /\ IF outcome = "network"
       THEN /\ tasks' = tasks \ {t}
            /\ UNCHANGED <<isGeneratingSummary, showSummary>>
       ELSE Finally(t)
  /\ hist' = (IF outcome = "ok" /\ t.sess = session
               THEN [hist EXCEPT !.notified = @ + 1] ELSE hist)
  /\ UNCHANGED <<isCallActive, isLoading, initialContext, transcript, callDuration,
                 finalCallDuration, consultationSummary, messages,
                 vapiAnalysisSummary, endOfCallReport, userEndedCall, refs,
                 isSpeaking, profile, orphanIntervals, backend, library, now, engine, delivered, graceTimers, session>>

\* the POST /api/patient/consultations request settles
FetchSettled(t, outcome) ==
  /\ t \in tasks
  /\ t.pc = "fetch"
  /\ error' = CASE outcome = "ok" -> error
                [] outcome = "rejected" -> ErrSaveFailed
                [] outcome = "network" -> ErrSaveNetwork
  /\ Finally(t)
  /\ hist' = (IF outcome = "ok" /\ t.sess = session
               THEN [hist EXCEPT !.notified = @ + 1] ELSE hist)
  /\ UNCHANGED <<isCallActive, isLoading, initialContext, transcript, callDuration,
                 finalCallDuration, consultationSummary, messages,
                 vapiAnalysisSummary, endOfCallReport, userEndedCall, refs,
                 isSpeaking, profile, orphanIntervals, backend, library, now, engine, delivered, graceTimers, session>>

\* ------------------------------------------------------- engine handlers
\* the render whose state the registered engine handlers read
HandlerRender == MountRender

\* awaited vapi.start() succeeds: the engine emits 'call-start' (handleCallStart)
CallStartEvent ==
  /\ InHorizon
  /\ engine = "starting"
  /\ engine' = "live"
  /\ isCallActive' = TRUE
  /\ error' = ""
  /\ isLoading' = FALSE
  /\ callStartTimeRef' = Some(now)
  /\ startDurationTimer
  /\ UNCHANGED <<initialContext, transcript, callDuration, finalCallDuration,
                 consultationSummary, showSummary, messages, isGeneratingSummary,
                 vapiAnalysisSummary, endOfCallReport, userEndedCall, isSpeaking, profile, backend, library,
                 now, delivered, graceTimers, tasks, history>>

\* handleMessage, case 'call-start': the confirmation repeated as a message
CallStartMessage ==
  /\ InHorizon
  /\ engine = "live"
  /\ "call-start-msg" \notin delivered
  /\ delivered' = delivered \cup {"call-start-msg"}
  /\ isCallActive' = TRUE
  /\ error' = ""
  /\ callStartTimeRef' = Some(now)
  /\ startDurationTimer
  /\ UNCHANGED <<isLoading, initialContext, transcript, callDuration,
                 finalCallDuration, consultationSummary, showSummary, messages,
                 isGeneratingSummary, vapiAnalysisSummary, endOfCallReport,
                 userEndedCall, isSpeaking, profile, backend, library, now, engine, graceTimers, tasks,
                 history>>

\* a catch block that reports the failure and leaves isLoading set
StartRejectedKeepsLoading ==
  /\ InHorizon
  /\ engine = "starting"
  /\ engine' = "idle"
  /\ error' = ErrStartFailed
  /\ UNCHANGED <<isCallActive, isLoading, initialContext, transcript,
                 callDuration, finalCallDuration, consultationSummary,
                 showSummary, messages, isGeneratingSummary,
                 vapiAnalysisSummary, endOfCallReport, userEndedCall, refs,
                 isSpeaking, profile, orphanIntervals, backend, library, now, delivered, graceTimers, tasks, history>>

\* awaited vapi.start() rejects: the catch block of startCall
StartRejected ==
  /\ InHorizon
  /\ engine = "starting"
  /\ engine' = "idle"
  /\ error' = ErrStartFailed
  /\ isLoading' = FALSE
  /\ UNCHANGED <<isCallActive, initialContext, transcript, callDuration,
                 finalCallDuration, consultationSummary, showSummary, messages,
                 isGeneratingSummary, vapiAnalysisSummary, endOfCallReport,
                 userEndedCall, refs, isSpeaking, profile, orphanIntervals, backend, library, now, delivered, graceTimers,
                 tasks, history>>

\* handleError: the engine's 'error' event; an error while starting ends the
\* attempt, an error during the call leaves the call running
ErrorEvent ==
  /\ InHorizon
  /\ engine \in {"starting", "live"}
  /\ engine' = IF engine = "starting" THEN "idle" ELSE engine
  /\ error' = ErrEngineEvent
  /\ isCallActive' = FALSE
  /\ isLoading' = FALSE
  /\ UNCHANGED <<initialContext, transcript, callDuration, finalCallDuration,
                 consultationSummary, showSummary, messages, isGeneratingSummary,
                 vapiAnalysisSummary, endOfCallReport, userEndedCall, refs,
                 isSpeaking, profile, orphanIntervals, backend, library, now, delivered, graceTimers, tasks, history>>

\* handleMessage, case 'error'
ErrorMessage ==
  /\ InHorizon
  /\ engine \in {"starting", "live"}
  /\ error' = ErrEngineMessage
  /\ UNCHANGED <<isCallActive, isLoading, initialContext, transcript,
                 callDuration, finalCallDuration, consultationSummary,
                 showSummary, messages, isGeneratingSummary,
                 vapiAnalysisSummary, endOfCallReport, userEndedCall, refs,
                 isSpeaking, profile, orphanIntervals, backend, library, env, history>>

\* a transcript handler whose final message clears the pending partial only
\* when it is of the same role
TranscriptMessageKeepsOtherRole(role, text, transcriptType) ==
  /\ InHorizon
  /\ engine = "live"
  /\ hist.events < MaxEvents
  /\ transcriptType = "final" => Len(messages) < MaxMsgs
  /\ IF Len(text) > 0
       THEN IF transcriptType = "partial"
              THEN /\ transcript' = Some([role |-> role, content |-> text])
                   /\ UNCHANGED messages
              ELSE /\ messages' = Append(messages, [role |-> role, content |-> text])
                   /\ transcript' = (IF IsSome(transcript) /\ Val(transcript).role # role
                                       THEN transcript ELSE None)
       ELSE UNCHANGED <<transcript, messages>>
  /\ hist' = [hist EXCEPT
       !.events = @ + 1,
       !.lastEvent = Some([role |-> role, text |-> text, transcriptType |-> transcriptType]),
       !.finals = IF transcriptType = "final" THEN Append(@, [role |-> role, text |-> text]) ELSE @,
       !.msgs = IF Len(text) > 0 /\ transcriptType = "final" THEN @ + 1 ELSE @]
  /\ UNCHANGED <<isCallActive, isLoading, error, initialContext, callDuration,
                 finalCallDuration, consultationSummary, showSummary,
                 isGeneratingSummary, vapiAnalysisSummary, endOfCallReport,
                 userEndedCall, refs, isSpeaking, profile, orphanIntervals, backend, library, env, session>>

\* a transcript handler whose partial message is merged into a pending
\* partial of the same role
TranscriptMessageMergesPartial(role, text, transcriptType) ==
  /\ InHorizon
  /\ engine = "live"
  /\ hist.events < MaxEvents
  /\ transcriptType = "final" => Len(messages) < MaxMsgs
  /\ IF Len(text) > 0
       THEN IF transcriptType = "partial"
              THEN /\ transcript' = (IF IsSome(transcript) /\ Val(transcript).role = role
                                       THEN Some([role |-> role, content |-> Val(transcript).content \o text])
                                       ELSE Some([role |-> role, content |-> text]))
                   /\ UNCHANGED messages
              ELSE /\ messages' = Append(messages, [role |-> role, content |-> text])
                   /\ transcript' = None
       ELSE UNCHANGED <<transcript, messages>>
  /\ hist' = [hist EXCEPT
       !.events = @ + 1,
       !.lastEvent = Some([role |-> role, text |-> text, transcriptType |-> transcriptType]),
       !.finals = IF transcriptType = "final" THEN Append(@, [role |-> role, text |-> text]) ELSE @,
       !.msgs = IF Len(text) > 0 /\ transcriptType = "final" THEN @ + 1 ELSE @]
  /\ UNCHANGED <<isCallActive, isLoading, error, initialContext, callDuration,
                 finalCallDuration, consultationSummary, showSummary,
                 isGeneratingSummary, vapiAnalysisSummary, endOfCallReport,
                 userEndedCall, refs, isSpeaking, profile, orphanIntervals, backend, library, env, session>>

\* handleMessage, case 'transcript'
TranscriptMessage(role, text, transcriptType) ==
  /\ InHorizon
  /\ engine = "live"
  /\ hist.events < MaxEvents
  /\ transcriptType = "final" => Len(messages) < MaxMsgs
  /\ IF Len(text) > 0
       THEN IF transcriptType = "partial"
              THEN /\ transcript' = Some([role |-> role, content |-> text])
                   /\ UNCHANGED messages
              ELSE /\ messages' = Append(messages, [role |-> role, content |-> text])
                   /\ transcript' = None
       ELSE UNCHANGED <<transcript, messages>>
  /\ hist' = [hist EXCEPT
       !.events = @ + 1,
       !.lastEvent = Some([role |-> role, text |-> text, transcriptType |-> transcriptType]),
       !.finals = IF transcriptType = "final" THEN Append(@, [role |-> role, text |-> text]) ELSE @,
       !.msgs = IF Len(text) > 0 /\ transcriptType = "final" THEN @ + 1 ELSE @]
  /\ UNCHANGED <<isCallActive, isLoading, error, initialContext, callDuration,
                 finalCallDuration, consultationSummary, showSummary,
                 isGeneratingSummary, vapiAnalysisSummary, endOfCallReport,
                 userEndedCall, refs, isSpeaking, profile, orphanIntervals, backend, library, env, session>>

\* handleMessage, case 'call-analysis'
\* case 'speech-start' (lines 129-134): only the assistant's speech is shown
SpeechStartMessage(role) ==
  /\ InHorizon
  /\ engine = "live"
  /\ isSpeaking' = (IF role = "assistant" THEN TRUE ELSE isSpeaking)
  /\ UNCHANGED <<isCallActive, isLoading, error, initialContext, transcript,
                 callDuration, finalCallDuration, consultationSummary,
                 showSummary, messages, isGeneratingSummary, vapiAnalysisSummary,
                 endOfCallReport, userEndedCall, refs, profile, orphanIntervals,
                 backend, library, env, history>>

\* case 'speech-end' (lines 136-141)
SpeechEndMessage(role) ==
  /\ InHorizon
  /\ engine = "live"
  /\ isSpeaking' = (IF role = "assistant" THEN FALSE ELSE isSpeaking)
  /\ UNCHANGED <<isCallActive, isLoading, error, initialContext, transcript,
                 callDuration, finalCallDuration, consultationSummary,
                 showSummary, messages, isGeneratingSummary, vapiAnalysisSummary,
                 endOfCallReport, userEndedCall, refs, profile, orphanIntervals,
                 backend, library, env, history>>

\* a call-analysis message that also opens the summary view
CallAnalysisMessageOpensSummary(analysis) ==
  /\ InHorizon
  /\ engine \in {"live", "ended"}
  /\ vapiAnalysisSummary' = IF Len(analysis) > 0 THEN Some(analysis) ELSE vapiAnalysisSummary
  /\ showSummary' = TRUE
  /\ UNCHANGED <<isCallActive, isLoading, error, initialContext, transcript,
                 callDuration, finalCallDuration, consultationSummary,
                 messages, isGeneratingSummary, endOfCallReport,
                 userEndedCall, isSpeaking, refs, profile, orphanIntervals, backend, library, env, history>>

CallAnalysisMessage(analysis) ==
  /\ InHorizon
  /\ engine \in {"live", "ended"}
  /\ vapiAnalysisSummary' = IF Len(analysis) > 0 THEN Some(analysis) ELSE vapiAnalysisSummary
  /\ UNCHANGED <<isCallActive, isLoading, error, initialContext, transcript,
                 callDuration, finalCallDuration, consultationSummary,
                 showSummary, messages, isGeneratingSummary, endOfCallReport,
                 userEndedCall, refs, isSpeaking, profile, orphanIntervals, backend, library, env, history>>

\* the body shared by handleMessage case 'call-end' and handleCallEndEvent
PlainCallEnd(sig) ==
  /\ InHorizon
  /\ engine \in {"live", "ended"}
  /\ sig \notin delivered
  /\ engine' = "ended"
  /\ delivered' = delivered \cup {sig}
  /\ IF ~IsSome(HandlerRender.endOfCallReport)
       THEN /\ captureFinalDuration
            /\ isCallActive' = FALSE
            /\ clearDurationInterval
            /\ isGeneratingSummary' = (IF ~HandlerRender.isGeneratingSummary THEN TRUE ELSE isGeneratingSummary)
            /\ handleCallEnd(HandlerRender, session, sig)
            /\ Finalizing(session)
       ELSE UNCHANGED <<finalCallDuration, callDuration, isCallActive,
                        durationIntervalRef, intervalRunning, intervalDue,
                        isGeneratingSummary, tasks, hist>>
  /\ UNCHANGED <<error, initialContext, transcript, consultationSummary,
                 showSummary, messages, vapiAnalysisSummary, endOfCallReport,
                 userEndedCall, callStartTimeRef, isSpeaking, profile, orphanIntervals, backend, library, now, graceTimers,
                 session>>

\* handleMessage, case 'call-end'
CallEndMessage ==
  /\ PlainCallEnd("call-end-msg")
  /\ UNCHANGED isLoading

\* handleCallEndEvent: the engine's 'call-end' event
CallEndEvent ==
  /\ PlainCallEnd("call-end-event")
  /\ isLoading' = (IF ~IsSome(HandlerRender.endOfCallReport) THEN FALSE ELSE isLoading)

\* handleMessage, case 'end-of-call-report'
EndOfCallReportMessage(report) ==
  /\ InHorizon
  /\ engine \in {"live", "ended"}
  /\ "report" \notin delivered
  /\ engine' = "ended"
  /\ delivered' = delivered \cup {"report"}
  /\ endOfCallReport' = Some(report)
  /\ captureFinalDuration
  /\ isCallActive' = FALSE
  /\ clearDurationInterval
  /\ isGeneratingSummary' = (IF ~HandlerRender.isGeneratingSummary THEN TRUE ELSE isGeneratingSummary)
  /\ handleCallEnd(HandlerRender, session, "report")
  /\ Finalizing(session)
  /\ UNCHANGED <<isLoading, error, initialContext, transcript,
                 consultationSummary, showSummary, messages,
                 vapiAnalysisSummary, userEndedCall, callStartTimeRef, isSpeaking, profile, orphanIntervals, backend, library,
                 now, graceTimers, session>>

\* ------------------------------------------------------------ user actions
\* the textarea of the start card
SetInitialContext(text) ==
  /\ InHorizon
  /\ StartCardShown
  /\ text # initialContext
  /\ initialContext' = text
  /\ UNCHANGED <<isCallActive, isLoading, error, transcript, callDuration,
                 finalCallDuration, consultationSummary, showSummary, messages,
                 isGeneratingSummary, vapiAnalysisSummary, endOfCallReport,
                 userEndedCall, refs, isSpeaking, profile, orphanIntervals, backend, library, env, history>>

\* a startCall that tests the complaint without trimming it
startCallWithoutTrim ==
  IF Len(initialContext) = 0
    THEN /\ error' = ErrValidation
         /\ UNCHANGED <<isCallActive, isLoading, initialContext, transcript,
                        callDuration, finalCallDuration, consultationSummary,
                        showSummary, messages, isGeneratingSummary,
                        vapiAnalysisSummary, endOfCallReport, userEndedCall,
                        refs, isSpeaking, profile, orphanIntervals, backend, library, env, history>>
  ELSE IF isCallActive
    THEN UNCHANGED vars
  ELSE /\ session < MaxSessions
       /\ isLoading' = TRUE
       /\ error' = ""
       /\ transcript' = None
       /\ callDuration' = 0
       /\ clearAndResetInterval
       /\ engine' = "starting"
       /\ delivered' = {}
       /\ session' = session + 1
       /\ hist' = NoHistory
       /\ UNCHANGED <<isCallActive, initialContext, finalCallDuration,
                      consultationSummary, showSummary, messages,
                      isGeneratingSummary, vapiAnalysisSummary, endOfCallReport,
                      userEndedCall, callStartTimeRef, isSpeaking, profile, orphanIntervals, backend, library, now,
                      graceTimers, tasks>>

\* startCall, run by the closure of the render on screen
startCall ==
  IF Len(Trim(initialContext)) = 0
    THEN /\ error' = ErrValidation
         /\ UNCHANGED <<isCallActive, isLoading, initialContext, transcript,
                        callDuration, finalCallDuration, consultationSummary,
                        showSummary, messages, isGeneratingSummary,
                        vapiAnalysisSummary, endOfCallReport, userEndedCall,
                        refs, isSpeaking, profile, orphanIntervals, backend, library, env, history>>
  ELSE IF isCallActive
    THEN UNCHANGED vars
  ELSE /\ session < MaxSessions
       /\ isLoading' = TRUE
       /\ error' = ""
       /\ transcript' = None
       /\ callDuration' = 0
       /\ clearAndResetInterval
       /\ engine' = "starting"
       /\ delivered' = {}
       /\ session' = session + 1
       /\ hist' = NoHistory
       /\ UNCHANGED <<isCallActive, initialContext, finalCallDuration,
                      consultationSummary, showSummary, messages,
                      isGeneratingSummary, vapiAnalysisSummary, endOfCallReport,
                      userEndedCall, callStartTimeRef, isSpeaking, profile, orphanIntervals, backend, library, now,
                      graceTimers, tasks>>

\* the Start Voice Consultation button
StartButton ==
  /\ InHorizon
  /\ StartButtonEnabled
  /\ startCall

\* the Try Again button: setError(''); startCall()
TryAgain ==
  /\ InHorizon
  /\ TryAgainShown
  /\ startCall

\* endCall, run by the closure of the render on screen; vapi.stop() returns
\* and the grace timeout is armed with that closure
endCall ==
  IF isCallActive
    THEN /\ userEndedCall' = TRUE
         /\ isGeneratingSummary' = TRUE
         /\ engine' = (IF engine \in {"starting", "live"} THEN "ended" ELSE engine)
         /\ graceTimers' = graceTimers \cup
              {[ sess |-> session, n |-> hist.graceArmed + 1,
                 closure |-> CurrentRender, due |-> now + GraceMs ]}
         /\ hist' = [hist EXCEPT !.stops = @ + 1, !.graceArmed = @ + 1]
         /\ UNCHANGED <<isCallActive, isLoading, error, initialContext,
                        transcript, callDuration, finalCallDuration,
                        consultationSummary, showSummary, messages,
                        vapiAnalysisSummary, endOfCallReport, refs, isSpeaking, profile, orphanIntervals, backend, library,
                        now, delivered, tasks, session>>
    ELSE UNCHANGED vars

\* the End Consultation button
EndCallClick ==
  /\ InHorizon
  /\ EndButtonShown
  /\ endCall

\* the setTimeout callback of endCall: it reads the state of the render in
\* which End Consultation was clicked
GraceTimeout(t) ==
  /\ t \in graceTimers
  /\ CanFire(t.due)
  /\ graceTimers' = graceTimers \ {t}
  /\ IF t.closure.isCallActive /\ ~IsSome(t.closure.endOfCallReport)
       THEN /\ captureFinalDuration
            /\ isCallActive' = FALSE
            /\ clearDurationInterval
            /\ handleCallEnd(t.closure, t.sess, "grace")
            /\ Finalizing(t.sess)
       ELSE UNCHANGED <<finalCallDuration, callDuration, isCallActive,
                        durationIntervalRef, intervalRunning, intervalDue,
                        tasks, hist>>
  /\ UNCHANGED <<isLoading, error, initialContext, transcript,
                 consultationSummary, showSummary, messages,
                 isGeneratingSummary, vapiAnalysisSummary, endOfCallReport,
                 userEndedCall, callStartTimeRef, isSpeaking, profile, orphanIntervals, backend, library, now, engine,
                 delivered, session>>

\* a handleSummaryClose that keeps the messages and the frozen duration
SummaryCloseKeepsMessages ==
  /\ InHorizon
  /\ SummaryShown
  /\ showSummary' = FALSE
  /\ consultationSummary' = None
  /\ transcript' = None
  /\ initialContext' = <<>>
  /\ callDuration' = 0
  /\ isGeneratingSummary' = FALSE
  /\ vapiAnalysisSummary' = None
  /\ endOfCallReport' = None
  /\ userEndedCall' = FALSE
  /\ isCallActive' = FALSE
  /\ isLoading' = FALSE
  /\ clearAndResetInterval
  /\ hist' = [hist EXCEPT !.dismissed = TRUE]
  /\ UNCHANGED <<error, finalCallDuration, messages, callStartTimeRef, isSpeaking, profile, orphanIntervals, backend, library,
                 env, session>>

\* handleSummaryClose: the close button of the summary view
SummaryClose ==
  /\ InHorizon
  /\ SummaryShown
  /\ showSummary' = FALSE
  /\ consultationSummary' = None
  /\ transcript' = None
  /\ initialContext' = <<>>
  /\ callDuration' = 0
  /\ finalCallDuration' = 0
  /\ messages' = <<>>
  /\ isGeneratingSummary' = FALSE
  /\ vapiAnalysisSummary' = None
  /\ endOfCallReport' = None
  /\ userEndedCall' = FALSE
  /\ isCallActive' = FALSE
  /\ isLoading' = FALSE
  /\ clearAndResetInterval
  /\ hist' = [hist EXCEPT !.dismissed = TRUE]
  /\ UNCHANGED <<error, callStartTimeRef, isSpeaking, profile, orphanIntervals, backend, library, env, session>>

\* ----------------------------------------------------------- specification
Complaint == <<"persistent headache for 3 days">>
Utterance == <<"started 3 days ago">>

\* ------------------------------------------------------------------ vapi.ts
\* calendar dates are records [year, month, day]
IsLeapYear(y) == (y % 4 = 0 /\ y % 100 # 0) \/ y % 400 = 0

DaysInMonth(y, m) ==
  IF m = 2 THEN (IF IsLeapYear(y) THEN 29 ELSE 28)
  ELSE IF m \in {4, 6, 9, 11} THEN 30
  ELSE 31

IsDate(date) ==
  date.month \in 1..12 /\ date.day \in 1..DaysInMonth(date.year, date.month)

PreviousDay(date) ==
  IF date.day > 1 THEN [date EXCEPT !.day = @ - 1]
  ELSE IF date.month > 1
    THEN [year |-> date.year, month |-> date.month - 1,
          day |-> DaysInMonth(date.year, date.month - 1)]
  ELSE [year |-> date.year - 1, month |-> 12, day |-> 31]

\* new Date('YYYY-MM-DD') is midnight UTC of that date; getFullYear, getMonth
\* and getDate read it in local time, which is the previous day in a time
\* zone behind UTC
LocalDateOf(dateOfBirth, behindUTC) ==
  IF behindUTC THEN PreviousDay(dateOfBirth) ELSE dateOfBirth

\* calculateAge, on the local date today
calculateAge(dateOfBirth, today, behindUTC) ==
  LET birthDate == LocalDateOf(dateOfBirth, behindUTC)
      age == today.year - birthDate.year
      monthDiff == today.month - birthDate.month
  IN IF monthDiff < 0 \/ (monthDiff = 0 /\ today.day < birthDate.day)
       THEN age - 1
       ELSE age

\* a text or the fallback: value || fallback
OrElse(optText, fallback) == IF Truthy(optText) THEN Val(optText) ELSE fallback

Preamble == <<"You are a compassionate AI nurse assistant helping a patient.", "IMPORTANT DISCLAIMERS TO ALWAYS REMEMBER:">>

\* the PATIENT PROFILE section, present only for a profile
ProfileSection(prof, today, behindUTC) ==
  IF ~IsSome(prof) THEN <<>>
  ELSE LET p == Val(prof) IN
    <<"PATIENT PROFILE:", "- Name: Patient (keep confidential)">>
    \o <<"- Age: ">>
    \o (IF IsSome(p.dateOfBirth)
          THEN <<ToString(calculateAge(Val(p.dateOfBirth), today, behindUTC))>>
          ELSE <<"Unknown">>)
    \o <<"- Gender: ">> \o OrElse(p.gender, <<"Not specified">>)
    \o <<"- Location: ">>
    \o (IF Truthy(p.city) /\ Truthy(p.state)
          THEN Val(p.city) \o <<", ">> \o Val(p.state)
          ELSE <<"Not specified">>)
    \o <<"- Preferred Language: ">> \o OrElse(p.preferredLanguage, <<"English">>)
    \o <<"- Emergency Contact: ">>
    \o (IF Truthy(p.emergencyContactName)
          THEN Val(p.emergencyContactName) \o <<" (">>
                 \o OrElse(p.emergencyContactRelationship, <<"null">>) \o <<")">>
          ELSE <<"Not provided">>)

\* one line of the conditions section: each optional part only when present
ConditionLine(condition) ==
  <<"- ">> \o condition.conditionName
  \o (IF Truthy(condition.severity) THEN <<" (">> \o Val(condition.severity) \o <<")">> ELSE <<>>)
  \o (IF Truthy(condition.status) THEN <<" - Status: ">> \o Val(condition.status) ELSE <<>>)
  \o (IF Truthy(condition.onsetDate) THEN <<" - Since: ">> \o Val(condition.onsetDate) ELSE <<>>)
  \o (IF Truthy(condition.description) THEN <<" - ">> \o Val(condition.description) ELSE <<>>)
  \o <<"\n">>

RECURSIVE ConditionLines(_)
ConditionLines(conds) ==
  IF Len(conds) = 0 THEN <<>>
  ELSE ConditionLine(Head(conds)) \o ConditionLines(Tail(conds))

\* the CURRENT MEDICAL CONDITIONS section, present only with conditions
ConditionsSection(conds) ==
  IF Len(conds) > 0
    THEN <<"CURRENT MEDICAL CONDITIONS:">> \o ConditionLines(conds) \o <<"\n">>
    ELSE <<>>

\* pastConsultations.slice(-3)
LastThree(consults) ==
  IF Len(consults) > 3 THEN SubSeq(consults, Len(consults) - 2, Len(consults)) ELSE consults

ConsultationEntry(consultation, index) ==
  <<ToString(index), ". ", "localeDate">> \o consultation.createdAt \o <<":">>
  \o <<"   - Summary: ">> \o consultation.summary
  \o <<"   - Symptoms: ">> \o OrElse(consultation.symptoms, <<"None recorded">>)
  \o <<"   - Follow-up: ">> \o OrElse(consultation.followUpContacts, <<"None specified">>)

RECURSIVE ConsultationEntries(_, _)
ConsultationEntries(consults, index) ==
  IF Len(consults) = 0 THEN <<>>
  ELSE ConsultationEntry(Head(consults), index)
         \o ConsultationEntries(Tail(consults), index + 1)

\* the RECENT CONSULTATION HISTORY section, present only with consultations
HistorySection(consults) ==
  IF Len(consults) > 0
    THEN <<"RECENT CONSULTATION HISTORY (Last 3):">>
           \o ConsultationEntries(LastThree(consults), 1) \o <<"\n">>
    ELSE <<>>

\* the CURRENT CONSULTATION CONTEXT section, present only with a complaint
ContextSection(text) ==
  IF Len(text) > 0
    THEN <<"CURRENT CONSULTATION CONTEXT:", "The patient has indicated: \"">> \o text
           \o <<"\"", "Please address their current concern while considering their medical history and past consultations.">>
    ELSE <<>>

Guidelines == <<"RESPONSE GUIDELINES:", "Remember: You are providing supportive guidance, not medical diagnosis or treatment.">>

\* generatePatientContext, called on the local date today
generatePatientContext(prof, conds, consults, text, today, behindUTC) ==
  Preamble \o ProfileSection(prof, today, behindUTC) \o ConditionsSection(conds)
    \o HistorySection(consults) \o ContextSection(text) \o Guidelines

\* the dates of birth and the dates of today the function is applied to
BirthDates ==
  { date \in [year : {1999, 2000}, month : {1, 2, 3, 12}, day : {1, 15, 29, 31}] :
      IsDate(date) }

TodayDates ==
  { date \in [year : {2026}, month : {1, 2, 3, 12}, day : {1, 14, 15, 16, 28, 31}] :
      IsDate(date) }

\* the inputs of generatePatientContext: no profile or a profile with or
\* without date of birth, gender and location; no condition or one with or
\* without severity, status and onset date; no consultation, one with or
\* without symptoms and follow-up, or four
ContextProfiles ==
  {None} \cup
  { Some([ dateOfBirth |-> dob, gender |-> gender, city |-> place.city,
           state |-> place.state, preferredLanguage |-> None,
           emergencyContactName |-> None, emergencyContactRelationship |-> None ]) :
      dob \in {None, Some([year |-> 2000, month |-> 3, day |-> 15])},
      gender \in {None, Some(<<"female">>)},
      place \in { [city |-> None, state |-> None],
                  [city |-> Some(<<"Austin">>), state |-> None],
                  [city |-> Some(<<"Austin">>), state |-> Some(<<"TX">>)] } }

ContextConditions ==
  {<<>>} \cup
  { <<[ conditionName |-> <<"asthma">>, severity |-> severity, status |-> status,
        onsetDate |-> onsetDate, description |-> None ]>> :
      severity \in {None, Some(<<"mild">>)},
      status \in {None, Some(<<"active">>)},
      onsetDate \in {None, Some(<<"2020-01-01">>)} }

PastConsultation(n, symptoms, followUpContacts) ==
  [ createdAt |-> <<ToString(n)>>, summary |-> <<"visit">>, symptoms |-> symptoms,
    followUpContacts |-> followUpContacts ]

ContextConsultations ==
  {<<>>} \cup
  { <<PastConsultation(1, symptoms, followUpContacts)>> :
      symptoms \in {None, Some(<<"cough">>)},
      followUpContacts \in {None, Some(<<"clinic">>)} } \cup
  { <<PastConsultation(1, None, None), PastConsultation(2, None, None),
      PastConsultation(3, None, None), PastConsultation(4, None, None)>> }

ContextToday == [year |-> 2026, month |-> 3, day |-> 14]

\* a call of generatePatientContext
GeneratePatientContext(prof, conds, consults, text, behindUTC) ==
  /\ contextCall = None
  /\ contextCall' = Some([ profile |-> prof, conditions |-> conds,
                           pastConsultations |-> consults, initialContext |-> text,
                           context |-> generatePatientContext(prof, conds, consults, text,
                                                              ContextToday, behindUTC) ])
  /\ UNCHANGED <<component, backend, ageCall>>

\* a call of calculateAge in a browser whose time zone is behind UTC or not
CalculateAge(dateOfBirth, today, behindUTC) ==
  /\ ageCall' = Some([ dateOfBirth |-> dateOfBirth, today |-> today,
                       behindUTC |-> behindUTC,
                       age |-> calculateAge(dateOfBirth, today, behindUTC) ])
  /\ UNCHANGED <<component, backend, contextCall>>

\* -------------------------------------------------------------- API routes
\* the users of the application
Users == {"alice", "bob"}

\* Authorization headers: none, a header that is not a bearer token, a bearer
\* token that fails verification, a verified token without a userId, and a
\* verified token of each user
AuthHeaders ==
  {None, Some([bearer |-> FALSE, verified |-> TRUE, userId |-> Some("alice")]),
         Some([bearer |-> TRUE, verified |-> FALSE, userId |-> Some("alice")]),
         Some([bearer |-> TRUE, verified |-> TRUE, userId |-> None])}
  \cup {Some([bearer |-> TRUE, verified |-> TRUE, userId |-> Some(u)]) : u \in Users}

\* getUserFromToken: the userId of a verified bearer token, None for null
getUserFromToken(auth) ==
  IF ~IsSome(auth) THEN None
  ELSE IF ~Val(auth).bearer THEN None
  ELSE IF ~Val(auth).verified THEN None
  ELSE Val(auth).userId

\* value || undefined
OrUndefined(optText) == IF Truthy(optText) THEN optText ELSE None

\* a string schema without a minimum length
AnyString(optText) == IsSome(optText)

\* z.string().min(1)
NonEmptyString(optText) == IsSome(optText) /\ Len(Val(optText)) >= 1

\* the JSON body of a fetch that sends a summary of the component
SummaryBody(summary) ==
  [ summary |-> Some(summary.summary),
    symptoms |-> Some(summary.symptoms),
    diagnosis |-> Some(summary.diagnosis),
    followUpContacts |-> Some(summary.followUpContacts),
    disclaimer |-> Some(summary.disclaimer) ]

\* request bodies of other clients: each of summary, disclaimer and symptoms
\* missing, an empty string or a text
BodyTexts == {None, Some(<<>>), Some(<<"note">>)}

ConsultationBodies ==
  [ summary : BodyTexts, symptoms : BodyTexts, diagnosis : {None},
    followUpContacts : {None}, disclaimer : BodyTexts ]

\* the id given to the next row of a table
NextId(table) == Cardinality(table) + 1

\* POST /api/patient/consultations
ConsultationsPOST(auth, body, dbFails) ==
  LET userId == getUserFromToken(auth)
      consultationData == [ summary |-> body.summary,
                            symptoms |-> OrUndefined(body.symptoms),
                            diagnosis |-> OrUndefined(body.diagnosis),
                            followUpContacts |-> OrUndefined(body.followUpContacts),
                            disclaimer |-> body.disclaimer ]
      valid == NonEmptyString(consultationData.summary)
                 /\ NonEmptyString(consultationData.disclaimer)
  IN
  IF ~IsSome(userId)
    THEN /\ response' = Some([route |-> "consultations", method |-> "POST", status |-> 401, user |-> None, rows |-> {}, target |-> None])
         /\ UNCHANGED pastConsultations
  ELSE IF ~valid
    THEN /\ response' = Some([route |-> "consultations", method |-> "POST", status |-> 400, user |-> userId, rows |-> {}, target |-> None])
         /\ UNCHANGED pastConsultations
  ELSE IF dbFails
    THEN /\ response' = Some([route |-> "consultations", method |-> "POST", status |-> 500, user |-> userId, rows |-> {}, target |-> None])
         /\ UNCHANGED pastConsultations
  ELSE LET row == [ id |-> NextId(pastConsultations),
                    userId |-> Val(userId),
                    summary |-> Val(consultationData.summary),
                    symptoms |-> consultationData.symptoms,
                    diagnosis |-> consultationData.diagnosis,
                    followUpContacts |-> consultationData.followUpContacts,
                    disclaimer |-> Val(consultationData.disclaimer) ]
       IN /\ pastConsultations' = pastConsultations \cup {row}
          /\ response' = Some([route |-> "consultations", method |-> "POST", status |-> 201, user |-> userId, rows |-> {row}, target |-> None])

\* GET /api/patient/consultations
ConsultationsGET(auth, dbFails) ==
  LET userId == getUserFromToken(auth) IN
  /\ response' =
       IF ~IsSome(userId)
         THEN Some([route |-> "consultations", method |-> "GET", status |-> 401, user |-> None, rows |-> {}, target |-> None])
       ELSE IF dbFails
         THEN Some([route |-> "consultations", method |-> "GET", status |-> 500, user |-> userId, rows |-> {}, target |-> None])
       ELSE Some([route |-> "consultations", method |-> "GET", status |-> 200, user |-> userId,
                  rows |-> {row \in pastConsultations : row.userId = Val(userId)},
                  target |-> None])
  /\ UNCHANGED pastConsultations

\* a client other than the component posts a consultation
PostConsultation(auth, body, dbFails) ==
  /\ Cardinality(pastConsultations) < MaxRows
  /\ ConsultationsPOST(auth, body, dbFails)
  /\ UNCHANGED <<component, medicalConditions, library>>

\* the renders whose closure may run handleCallEnd: with or without messages
\* and complaint
SummaryRenders ==
  { [MountRender EXCEPT !.messages = msgs, !.initialContext = text] :
      msgs \in {<<>>, <<[role |-> "user", content |-> Utterance]>>},
      text \in {<<>>, Complaint} }

\* the Authorization header of the component's fetch: always a bearer token
ComponentAuth == {auth \in AuthHeaders : IsSome(auth) /\ Val(auth).bearer}

\* handleCallEnd from the summary to the response of its POST request
SaveSummary(auth, r, dbFails) ==
  /\ Cardinality(pastConsultations) < MaxRows
  /\ LET summary == generateConsultationSummary(r, profile) IN
       /\ IsSome(summary)
       /\ consultationSummary' = summary
       /\ ConsultationsPOST(auth, SummaryBody(Val(summary)), dbFails)
  /\ UNCHANGED <<isCallActive, isLoading, error, initialContext, transcript,
                 callDuration, finalCallDuration, showSummary, messages,
                 isGeneratingSummary, vapiAnalysisSummary, endOfCallReport,
                 userEndedCall, refs, orphanIntervals, isSpeaking, profile, env, history,
                 medicalConditions, library>>

GetConsultations(auth, dbFails) ==
  /\ ConsultationsGET(auth, dbFails)
  /\ UNCHANGED <<component, medicalConditions, library>>

\* the call lifecycle: the user's actions, the engine's events and the timers,
\* with one complaint text and one patient utterance
Next ==
  \/ SetInitialContext(Complaint)
  \/ StartButton
  \/ TryAgain
  \/ EndCallClick
  \/ SummaryClose
  \/ CallStartEvent
  \/ StartRejected
  \/ ErrorEvent
  \/ TranscriptMessage("user", Utterance, "final")
  \/ CallEndMessage
  \/ CallEndEvent
  \/ \E report \in Reports : EndOfCallReportMessage(report)
  \/ \E t \in graceTimers : GraceTimeout(t)
  \/ \E t \in tasks : HandleCallEndResume(t)
  \/ \E t \in tasks, outcome \in FetchOutcomes : FetchSettled(t, outcome)
  \/ IntervalTick
  \/ Tick

Spec == Init /\ [][Next]_vars

\* the lifecycle under the scheduling of the browser's event loop: time
\* passes, and every timer callback and every settled request runs; the
\* patient has no profile, and the engine's events are those that end a call
InitNoProfile == Init /\ profile = None

NextFair ==
  \/ SetInitialContext(Complaint)
  \/ StartButton
  \/ EndCallClick
  \/ SummaryClose
  \/ CallStartEvent
  \/ TranscriptMessage("user", Utterance, "final")
  \/ CallEndEvent
  \/ \E report \in Reports : EndOfCallReportMessage(report)
  \/ \E t \in graceTimers : GraceTimeout(t)
  \/ \E t \in tasks : HandleCallEndResume(t)
  \/ \E t \in tasks, outcome \in FetchOutcomes : FetchSettled(t, outcome)
  \/ IntervalTick
  \/ Tick

SpecFair ==
  /\ InitNoProfile
  /\ [][NextFair]_vars
  /\ WF_vars(Tick)
  /\ WF_vars(IntervalTick)
  /\ WF_vars(\E t \in graceTimers : GraceTimeout(t))
  /\ WF_vars(\E t \in tasks : HandleCallEndResume(t))
  /\ WF_vars(\E t \in tasks, outcome \in FetchOutcomes : FetchSettled(t, outcome))

\* the transcript accumulator: one call, receiving every kind of transcript
\* message from either role, with or without text
NextTranscript ==
  \/ SetInitialContext(Complaint)
  \/ StartButton
  \/ CallStartEvent
  \/ \E role \in Roles, text \in Utterances, transcriptType \in TranscriptTypes :
       TranscriptMessage(role, text, transcriptType)
  \/ IntervalTick
  \/ Tick

SpecTranscript == InitNoProfile /\ [][NextTranscript]_vars

\* The messages of a live call that are not lifecycle messages: transcripts,
\* speech-start and speech-end, call-analysis.
ConversationMessage ==
  \/ \E role \in Roles, text \in Utterances, transcriptType \in TranscriptTypes :
       TranscriptMessage(role, text, transcriptType)
  \/ \E role \in Roles : SpeechStartMessage(role)
  \/ \E role \in Roles : SpeechEndMessage(role)
  \/ \E analysis \in Analyses \cup {<<>>} : CallAnalysisMessage(analysis)

NextConversation ==
  \/ SetInitialContext(Complaint)
  \/ StartButton
  \/ CallStartEvent
  \/ ConversationMessage
  \/ IntervalTick
  \/ Tick

SpecConversation == InitNoProfile /\ [][NextConversation]_vars

\* Sessions that start, are confirmed once or twice, fail or end, and start
\* again: every path on which the duration interval is created or cleared.
NextTimer ==
  \/ SetInitialContext(Complaint)
  \/ StartButton
  \/ TryAgain
  \/ StartRejected
  \/ CallStartEvent
  \/ CallStartMessage
  \/ EndCallClick
  \/ CallEndEvent
  \/ \E t \in graceTimers : GraceTimeout(t)
  \/ \E t \in tasks : HandleCallEndResume(t)
  \/ IntervalTick
  \/ Tick

SpecTimer == InitNoProfile /\ [][NextTimer]_vars

\* starting a consultation: the complaint is typed (or blanked), a start is
\* requested, and the engine confirms the call, rejects the start or reports
\* an error
NextStart ==
  \/ \E text \in Contexts : SetInitialContext(text)
  \/ StartButton
  \/ TryAgain
  \/ CallStartEvent
  \/ StartRejected
  \/ ErrorEvent
  \/ ErrorMessage
  \/ IntervalTick
  \/ Tick

SpecStart == InitNoProfile /\ [][NextStart]_vars

\* ---- /api/patient/conditions and /api/patient/conditions/[id]
\* medicalConditions holds the rows in the order of their creation; the id of
\* a row is its position (a fresh uuid in the code), and a deleted row leaves
\* its position empty.
ConditionNames == {Some(<<>>), Some(<<"asthma">>)}
Severities == {None, Some(<<"mild">>), Some(<<"extreme">>)}
ConditionBodies == [conditionName : ConditionNames, severity : Severities]
ConditionIds == 1..(MaxRows + 1)

\* value === '' ? undefined : value
EmptyToUndefined(optText) == IF optText = Some(<<>>) THEN None ELSE optText

CleanedBody(body) ==
  [ conditionName |-> EmptyToUndefined(body.conditionName),
    severity |-> EmptyToUndefined(body.severity) ]

\* insertMedicalConditionClientSchema.safeParse(cleanedBody).success
ValidCondition(cleanedBody) ==
  /\ NonEmptyString(cleanedBody.conditionName)
  /\ IsSome(cleanedBody.severity) =>
       Val(cleanedBody.severity) \in {<<"mild">>, <<"moderate">>, <<"severe">>}

\* the row with the given id, as a route returns it
ConditionRow(table, id) ==
  [ id |-> id, userId |-> Val(table[id]).userId,
    conditionName |-> Val(table[id]).conditionName,
    severity |-> Val(table[id]).severity ]

\* where(eq(medicalConditions.id, id)): the row exists, whoever owns it
MatchesId(table, id, userId) ==
  id \in 1..Len(table) /\ IsSome(table[id])

\* where(and(eq(medicalConditions.id, id), eq(medicalConditions.userId, userId)))
MatchesIdAndUser(table, id, userId) ==
  id \in 1..Len(table) /\ IsSome(table[id]) /\ Val(table[id]).userId = userId

ConditionsGET(auth, dbFails) ==
  LET userId == getUserFromToken(auth) IN
  /\ response' =
       IF ~IsSome(userId)
         THEN Some([route |-> "conditions", method |-> "GET", status |-> 401, user |-> None,
                    rows |-> {}, target |-> None])
       ELSE IF dbFails
         THEN Some([route |-> "conditions", method |-> "GET", status |-> 500, user |-> userId,
                    rows |-> {}, target |-> None])
       ELSE Some([route |-> "conditions", method |-> "GET", status |-> 200, user |-> userId,
                  rows |-> { ConditionRow(medicalConditions, id) :
                               id \in { i \in 1..Len(medicalConditions) :
                                          IsSome(medicalConditions[i])
                                            /\ Val(medicalConditions[i]).userId = Val(userId) } },
                  target |-> None])
  /\ UNCHANGED medicalConditions

ConditionsPOST(auth, body, dbFails) ==
  LET userId == getUserFromToken(auth)
      cleanedBody == CleanedBody(body)
  IN
  IF ~IsSome(userId)
    THEN /\ response' = Some([route |-> "conditions", method |-> "POST", status |-> 401, user |-> None,
                              rows |-> {}, target |-> None])
         /\ UNCHANGED medicalConditions
  ELSE IF ~ValidCondition(cleanedBody)
    THEN /\ response' = Some([route |-> "conditions", method |-> "POST", status |-> 400, user |-> userId,
                              rows |-> {}, target |-> None])
         /\ UNCHANGED medicalConditions
  ELSE IF dbFails
    THEN /\ response' = Some([route |-> "conditions", method |-> "POST", status |-> 500, user |-> userId,
                              rows |-> {}, target |-> None])
         /\ UNCHANGED medicalConditions
  ELSE /\ medicalConditions' =
            Append(medicalConditions,
                   Some([ userId |-> Val(userId),
                          conditionName |-> Val(cleanedBody.conditionName),
                          severity |-> cleanedBody.severity ]))
       /\ response' = Some([route |-> "conditions", method |-> "POST", status |-> 201, user |-> userId,
                            rows |-> {ConditionRow(medicalConditions', Len(medicalConditions'))},
                            target |-> None])

ConditionsPUT(auth, id, body, dbFails) ==
  LET userId == getUserFromToken(auth)
      cleanedBody == CleanedBody(body)
  IN
  IF ~IsSome(userId)
    THEN /\ response' = Some([route |-> "conditions/[id]", method |-> "PUT", status |-> 401, user |-> None,
                              rows |-> {}, target |-> Some(id)])
         /\ UNCHANGED medicalConditions
  ELSE IF ~ValidCondition(cleanedBody)
    THEN /\ response' = Some([route |-> "conditions/[id]", method |-> "PUT", status |-> 400, user |-> userId,
                              rows |-> {}, target |-> Some(id)])
         /\ UNCHANGED medicalConditions
  ELSE IF dbFails
    THEN /\ response' = Some([route |-> "conditions/[id]", method |-> "PUT", status |-> 500, user |-> userId,
                              rows |-> {}, target |-> Some(id)])
         /\ UNCHANGED medicalConditions
  ELSE IF ~MatchesIdAndUser(medicalConditions, id, Val(userId))
    THEN /\ response' = Some([route |-> "conditions/[id]", method |-> "PUT", status |-> 404, user |-> userId,
                              rows |-> {}, target |-> Some(id)])
         /\ UNCHANGED medicalConditions
  ELSE /\ medicalConditions' =
            [medicalConditions EXCEPT ![id] =
               Some([ userId |-> Val(@).userId,
                      conditionName |-> Val(cleanedBody.conditionName),
                      severity |-> cleanedBody.severity ])]
       /\ response' = Some([route |-> "conditions/[id]", method |-> "PUT", status |-> 200, user |-> userId,
                            rows |-> {ConditionRow(medicalConditions', id)},
                            target |-> Some(id)])

ConditionsDELETE(auth, id, dbFails) ==
  LET userId == getUserFromToken(auth) IN
  IF ~IsSome(userId)
    THEN /\ response' = Some([route |-> "conditions/[id]", method |-> "DELETE", status |-> 401, user |-> None,
                              rows |-> {}, target |-> Some(id)])
         /\ UNCHANGED medicalConditions
  ELSE IF dbFails
    THEN /\ response' = Some([route |-> "conditions/[id]", method |-> "DELETE", status |-> 500, user |-> userId,
                              rows |-> {}, target |-> Some(id)])
         /\ UNCHANGED medicalConditions
  ELSE IF ~MatchesIdAndUser(medicalConditions, id, Val(userId))
    THEN /\ response' = Some([route |-> "conditions/[id]", method |-> "DELETE", status |-> 404, user |-> userId,
                              rows |-> {}, target |-> Some(id)])
         /\ UNCHANGED medicalConditions
  ELSE /\ medicalConditions' = [medicalConditions EXCEPT ![id] = None]
       /\ response' = Some([route |-> "conditions/[id]", method |-> "DELETE", status |-> 200, user |-> userId,
                            rows |-> {}, target |-> Some(id)])

PostCondition(auth, body, dbFails) ==
  /\ Len(medicalConditions) < MaxRows
  /\ ConditionsPOST(auth, body, dbFails)
  /\ UNCHANGED <<component, pastConsultations, library>>

GetConditions(auth, dbFails) ==
  /\ ConditionsGET(auth, dbFails)
  /\ UNCHANGED <<component, pastConsultations, library>>

PutCondition(auth, id, body, dbFails) ==
  /\ ConditionsPUT(auth, id, body, dbFails)
  /\ UNCHANGED <<component, pastConsultations, library>>

DeleteCondition(auth, id, dbFails) ==
  /\ ConditionsDELETE(auth, id, dbFails)
  /\ UNCHANGED <<component, pastConsultations, library>>

\* the API routes under requests of several clients, the component among them
NextBackend ==
  \/ \E auth \in AuthHeaders, body \in ConsultationBodies, dbFails \in BOOLEAN :
       PostConsultation(auth, body, dbFails)
  \/ \E auth \in ComponentAuth, r \in SummaryRenders, dbFails \in BOOLEAN :
       SaveSummary(auth, r, dbFails)
  \/ \E auth \in AuthHeaders, dbFails \in BOOLEAN : GetConsultations(auth, dbFails)

SpecBackend == InitNoProfile /\ [][NextBackend]_vars

\* a body the consultations route accepts
AcceptedConsultation ==
  [ summary |-> Some(<<"note">>), symptoms |-> None, diagnosis |-> None,
    followUpContacts |-> None, disclaimer |-> Some(<<"note">>) ]

\* no header, a token with a bad signature, and the token of each user
Requesters ==
  {None, Some([bearer |-> TRUE, verified |-> FALSE, userId |-> Some("alice")])}
  \cup {Some([bearer |-> TRUE, verified |-> TRUE, userId |-> Some(u)]) : u \in Users}

\* requests of several users, with and without a valid token, to the
\* consultations route and to the two conditions routes
NextIsolation ==
  \/ \E auth \in Requesters, dbFails \in BOOLEAN :
       PostConsultation(auth, AcceptedConsultation, dbFails)
  \/ \E auth \in Requesters, dbFails \in BOOLEAN : GetConsultations(auth, dbFails)
  \/ \E auth \in Requesters, body \in ConditionBodies, dbFails \in BOOLEAN :
       PostCondition(auth, body, dbFails)
  \/ \E auth \in Requesters, dbFails \in BOOLEAN : GetConditions(auth, dbFails)
  \/ \E auth \in Requesters, id \in ConditionIds, body \in ConditionBodies, dbFails \in BOOLEAN :
       PutCondition(auth, id, body, dbFails)
  \/ \E auth \in Requesters, id \in ConditionIds, dbFails \in BOOLEAN :
       DeleteCondition(auth, id, dbFails)

SpecIsolation == InitNoProfile /\ [][NextIsolation]_vars

\* the inputs of generateConsultationSummary: the messages of a call, the
\* analysis summary and the end-of-call report the engine may have supplied
SummaryMessages ==
  { <<>>,
    <<[role |-> "assistant", content |-> <<"how can I help">>]>>,
    <<[role |-> "user", content |-> <<"started 3 days ago">>]>>,
    <<[role |-> "user", content |-> <<"started 3 days ago">>],
      [role |-> "assistant", content |-> <<"how can I help">>]>>,
    <<[role |-> "user", content |-> <<"started 3 days ago">>],
      [role |-> "user", content |-> <<"worse in the morning">>]>> }

SummaryAnalyses ==
  { None, Some(<<" ">>), Some(<<"Patient reports mild fatigue", ".">>),
    Some(TwoSentences),
    Some(<<"Patient reports mild fatigue", ". ", "No fever", ". ", "Recommend rest and hydration", ".">>) }

SummaryReports == {None} \cup {Some(report) : report \in Reports}

InitSummary ==
  /\ InitOther
  /\ initialContext \in {<<>>, Complaint}
  /\ messages \in SummaryMessages
  /\ vapiAnalysisSummary \in SummaryAnalyses
  /\ endOfCallReport \in SummaryReports

\* const summary = await generateConsultationSummary(); if (summary)
\* setConsultationSummary(summary), in the closure of the current render
Summarize ==
  /\ consultationSummary = None
  /\ consultationSummary' = generateConsultationSummary(CurrentRender, profile)
  /\ UNCHANGED <<isCallActive, isLoading, error, initialContext, transcript,
                 callDuration, finalCallDuration, showSummary, messages,
                 isGeneratingSummary, vapiAnalysisSummary, endOfCallReport,
                 userEndedCall, refs, orphanIntervals, isSpeaking, profile, env, history,
                 backend, library>>

NextSummary == Summarize

SpecSummary == InitSummary /\ [][NextSummary]_vars

\* calculateAge over dates of birth, dates of today and time zones
NextAge ==
  \E dateOfBirth \in BirthDates, today \in TodayDates, behindUTC \in BOOLEAN :
    CalculateAge(dateOfBirth, today, behindUTC)

SpecAge == InitNoProfile /\ [][NextAge]_vars

\* generatePatientContext over profiles, conditions, past consultations and
\* complaints
NextContext ==
  \E prof \in ContextProfiles, conds \in ContextConditions,
     consults \in ContextConsultations, text \in {<<>>, Complaint},
     behindUTC \in BOOLEAN :
    GeneratePatientContext(prof, conds, consults, text, behindUTC)

SpecContext == InitNoProfile /\ [][NextContext]_vars

\* a call for which the engine supplies its analysis: the analysis message
\* arrives during or after the call, the user ends the call, and the engine's
\* end-of-call report may follow
NextAnalysis ==
  \/ SetInitialContext(Complaint)
  \/ StartButton
  \/ EndCallClick
  \/ SummaryClose
  \/ CallStartEvent
  \/ TranscriptMessage("user", Utterance, "final")
  \/ \E analysis \in Analyses : CallAnalysisMessage(analysis)
  \/ \E report \in Reports : EndOfCallReportMessage(report)
  \/ \E t \in graceTimers : GraceTimeout(t)
  \/ \E t \in tasks : HandleCallEndResume(t)
  \/ \E t \in tasks, outcome \in FetchOutcomes : FetchSettled(t, outcome)
  \/ IntervalTick
  \/ Tick

SpecAnalysis == InitNoProfile /\ [][NextAnalysis]_vars

\* ------------------------------------------------------------------ claims
\* the engine's plain call-end signals
PlainEndSignals == {"call-end-msg", "call-end-event"}

\* C1: in a session the user did not end, once the engine has delivered both
\* a plain call-end and the end-of-call-report, handleCallEnd has run exactly
\* once for the session
C1_FinalizedOnce ==
  (hist.stops = 0 /\ "report" \in delivered /\ delivered \cap PlainEndSignals # {})
    => hist.callEndCalls = 1

\* C2, in sessions in which the engine delivers no termination signal: once
\* a termination has frozen finalCallDuration, a later termination acted upon
\* in the same session leaves it at the frozen value, and a summary stored for
\* the session carries the frozen value as its duration
C2_DurationFrozen ==
  [][ (delivered' \cap EndSignals = {})
        => /\ (IsSome(hist.frozen) /\ hist'.callEndCalls > hist.callEndCalls)
                => finalCallDuration' = Val(hist.frozen)
           /\ (hist'.posts > hist.posts)
                => Val(consultationSummary').duration = Val(hist'.frozen) ]_vars

\* C3, in sessions in which the engine delivers at most one termination
\* signal: in a session the user ended, whatever the order of that signal and
\* the grace timeout, handleCallEnd runs at most once and at most one POST
\* request is sent
C3_FinalizedOnceAfterUserEnd ==
  (hist.stops >= 1 /\ Cardinality(delivered \cap EndSignals) <= 1)
    => (hist.callEndCalls <= 1 /\ hist.posts <= 1)

\* C4: once an end-call request has been accepted in a session, no further
\* request can be made: the End Consultation button is not on screen, and so
\* vapi.stop() is called once and one grace timeout is armed
C4_SecondEndCallNoOp ==
  hist.stops >= 1 => (~EndButtonShown /\ hist.stops = 1 /\ hist.graceArmed = 1)

\* C5: when the user has ended the call, the engine has delivered no
\* termination signal, and every timeout and every handleCallEnd has run to
\* its end, the session has been finalized locally: handleCallEnd has run for
\* it (its finally block shows the outcome), the call is not active and the
\* spinner is gone
C5_UserEndCompletes ==
  (hist.stops >= 1 /\ delivered \cap EndSignals = {} /\ graceTimers = {} /\ tasks = {})
    => (hist.callEndCalls >= 1 /\ ~isCallActive /\ ~isGeneratingSummary)

\* C7: while no final utterance has been received in the session, no summary
\* is stored and no POST request is sent for it
C7_NoMessagesNoSummary == hist.msgs = 0 => hist.posts = 0

\* the step in which handleCallEnd, called as task t, passes its delay
ResumedTask(t) == t \in tasks /\ t.pc = "delay" /\ t \notin tasks'

\* the summary of messages msgs, with no engine analysis or transcript
LocalSymptoms(msgs) == Join(MapContent(SelectSeq(msgs, IsUserMessage)), <<"; ">>)

\* C8: when handleCallEnd was called by a plain engine call-end in a session
\* with at least one final utterance, and the engine gave no analysis and no
\* report, it stores a summary whose symptoms are the patient texts joined by
\* '; ', whose transcript is every message in order and whose duration is the
\* whole seconds elapsed at the call-end
C8_CallEndSummaryFromMessages ==
  [][ \A t \in tasks :
        ( /\ ResumedTask(t)
          /\ t.trigger \in PlainEndSignals
          /\ t.atCall.msgs >= 1
          /\ ~IsSome(vapiAnalysisSummary)
          /\ ~IsSome(endOfCallReport) )
        => ( /\ [t EXCEPT !.pc = "fetch"] \in tasks'
             /\ IsSome(consultationSummary')
             /\ Val(consultationSummary').symptoms = LocalSymptoms(t.atCall.messages)
             /\ Val(consultationSummary').transcript = FlattenTranscript(t.atCall.messages)
             /\ Val(consultationSummary').duration = t.atCall.duration ) ]_vars

TranscriptStep(transcriptType) ==
  /\ hist'.events = hist.events + 1
  /\ Val(hist'.lastEvent).transcriptType = transcriptType

\* the entry made of the transcript message just handled
LastEntry == [role |-> Val(hist'.lastEvent).role, content |-> Val(hist'.lastEvent).text]

\* C9 as stated: every final transcript message appends its entry to messages
\* and clears the pending partial
C9_EveryFinalAppends ==
  [][ TranscriptStep("final")
        => (messages' = Append(messages, LastEntry) /\ transcript' = None) ]_vars

\* C9: a final transcript message with a non-empty text appends exactly its
\* entry at the end of messages, leaves the earlier entries as they were and
\* clears the pending partial, whatever it held; one with an empty text
\* changes nothing
C9_FinalWithTextAppends ==
  [][ TranscriptStep("final")
        => IF Len(Val(hist'.lastEvent).text) > 0
             THEN /\ messages' = Append(messages, LastEntry)
                  /\ transcript' = None
             ELSE /\ messages' = messages
                  /\ transcript' = transcript ]_vars

\* a final message of one role has been appended while a partial of the other
\* role was pending or an earlier event had been handled
C9_Witness ==
  /\ hist.events = 3
  /\ Val(hist.lastEvent).transcriptType = "final"
  /\ Len(messages) = 2
  /\ messages[1].role # messages[2].role
  /\ messages[2].content = Val(hist.lastEvent).text
  /\ transcript = None

\* C10 as stated: every partial transcript message replaces the pending
\* partial by its entry and leaves messages unchanged
C10_EveryPartialReplaces ==
  [][ TranscriptStep("partial")
        => (transcript' = Some(LastEntry) /\ messages' = messages) ]_vars

\* C10: a partial transcript message with a non-empty text replaces the
\* pending partial by its entry, whatever role was pending, and one with an
\* empty text leaves the pending partial; neither changes messages
C10_PartialWithTextReplaces ==
  [][ TranscriptStep("partial")
        => /\ messages' = messages
           /\ transcript' = IF Len(Val(hist'.lastEvent).text) > 0
                              THEN Some(LastEntry) ELSE transcript ]_vars

\* after three partial messages the last one is pending, and messages is empty
C10_Witness ==
  /\ hist.events = 3
  /\ hist.msgs = 0
  /\ Val(hist.lastEvent).transcriptType = "partial"
  /\ IsSome(transcript)
  /\ Val(transcript).role = "assistant"
  /\ Val(transcript).content = Val(hist.lastEvent).text
  /\ messages = <<>>

RECURSIVE ExpectedLinesFrom(_)
\* the lines '<Role label>: <text>' of the utterances fs, each but the first
\* preceded by a newline
ExpectedLinesFrom(fs) ==
  IF Len(fs) = 0 THEN <<>>
  ELSE LET label == IF Head(fs).role = "user" THEN "Patient" ELSE "AI Nurse"
       IN  <<"\n", label, ": ">> \o Head(fs).text \o ExpectedLinesFrom(Tail(fs))

\* the utterances fs, one line each, joined by newlines
ExpectedTranscript(fs) ==
  IF Len(fs) = 0 THEN <<>> ELSE Tail(ExpectedLinesFrom(fs))

HasText(f) == Len(f.text) > 0

\* C11 as stated: the flattened transcript of messages is the lines of every
\* final transcript message of the call, in arrival order
C11_TranscriptOfEveryFinal ==
  FlattenTranscript(messages) = ExpectedTranscript(hist.finals)

\* C11: the flattened transcript of messages is the lines of the final
\* transcript messages with a non-empty text, in arrival order, whatever
\* partial messages arrived in between
C11_TranscriptOfFinalsWithText ==
  FlattenTranscript(messages) = ExpectedTranscript(SelectSeq(hist.finals, HasText))

\* three transcript messages have arrived: a final message of the patient and
\* then a final message of the assistant, with a partial message before the
\* latter
C11_Witness ==
  /\ hist.events = 3
  /\ Len(hist.finals) = 2
  /\ hist.finals[1].role = "user"
  /\ hist.finals[2].role = "assistant"
  /\ Val(hist.lastEvent).transcriptType = "final"
  /\ Len(messages) = 2
  /\ FlattenTranscript(messages) =
       <<"Patient", ": ", "started 3 days ago", "\n", "AI Nurse", ": ", "worse in the morning">>

\* a click on the Start Voice Consultation button or on Try Again
StartRequest == StartButton \/ TryAgain

BlankComplaint == Len(Trim(initialContext)) = 0

\* C12: a start request made while the complaint is empty or only white space
\* issues no engine start, leaves isLoading and isCallActive false and sets
\* the validation message
C12_BlankStartRejected ==
  [][StartRequest /\ BlankComplaint =>
       /\ engine' = engine
       /\ session' = session
       /\ ~isLoading /\ ~isLoading'
       /\ ~isCallActive /\ ~isCallActive'
       /\ error' = ErrValidation]_vars

\* a start was requested with a complaint of white space only, after an
\* earlier start had failed
C12_Witness ==
  /\ error = ErrValidation
  /\ initialContext = <<" ">>
  /\ session >= 1
  /\ engine = "idle"

\* the engine is starting a call or running one
EngineBusy == engine \in {"starting", "live"}

\* C13: a start request made while isLoading or isCallActive is true changes
\* nothing, and vapi.start() is issued only when the engine is neither
\* starting a call nor running one
C13_OneEngineSession ==
  [][/\ StartRequest /\ (isLoading \/ isCallActive) => UNCHANGED vars
     /\ session' # session => ~EngineBusy]_vars

\* the engine fails before it has confirmed the call: vapi.start() rejects
\* or the engine emits its error event
StartFailure == engine = "starting" /\ (StartRejected \/ ErrorEvent)

ErrorDuringCall == isCallActive /\ engine = "live" /\ (ErrorEvent \/ ErrorMessage)

\* C15: an engine error during a call, with no call-end, leaves the call
\* active: isCallActive stays true, nothing is finalized, and only the error
\* message changes
C15_ErrorKeepsCallActive ==
  [][ErrorDuringCall =>
       /\ isCallActive'
       /\ error' \in {ErrEngineEvent, ErrEngineMessage}
       /\ hist'.callEndCalls = hist.callEndCalls
       /\ UNCHANGED <<messages, tasks, graceTimers, isGeneratingSummary>>]_vars

\* the engine's error event has arrived during a call
C15_Witness ==
  /\ error = ErrEngineEvent
  /\ engine = "live"
  /\ IsSome(callStartTimeRef)

\* C16: whenever isCallActive is false, the one-second duration interval is
\* not running
C16_NoIntervalWhenInactive == ~isCallActive => ~intervalRunning

\* the call is no longer active and its duration interval still runs
C16_Witness ==
  /\ ~isCallActive
  /\ intervalRunning
  /\ IsSome(callStartTimeRef)

\* the POST request of some handleCallEnd fails: a response that is not OK,
\* or a network error
SaveFails ==
  \E t \in tasks : FetchSettled(t, "rejected") \/ FetchSettled(t, "network")

\* C17 as stated: when the POST request fails, consultationSummary is not
\* null, error is one of the two save-failure messages (neither of them the
\* summarization-failure message), onConsultationEnd is not called, and the
\* spinner is gone with showSummary set
C17_SaveFailureStillSummarized ==
  [][SaveFails =>
       /\ IsSome(consultationSummary')
       /\ error' \in {ErrSaveFailed, ErrSaveNetwork}
       /\ error' # ErrProcess
       /\ hist'.notified = hist.notified
       /\ ~isGeneratingSummary'
       /\ showSummary']_vars

\* the POST request has failed and the summary view is on screen
C17_Witness ==
  /\ error \in {ErrSaveFailed, ErrSaveNetwork}
  /\ SummaryShown
  /\ hist.posts = 1
  /\ hist.notified = 0
  /\ tasks = {}

\* C18: closing the summary leaves the start card on screen with every
\* session field cleared: no messages, no pending partial, no complaint, both
\* durations 0, no analysis summary, no report, no summary, not active, not
\* loading, not generating, and no duration interval
C18_CloseClearsSession ==
  [][SummaryClose =>
       /\ StartCardShown'
       /\ messages' = <<>>
       /\ transcript' = None
       /\ initialContext' = <<>>
       /\ callDuration' = 0
       /\ finalCallDuration' = 0
       /\ vapiAnalysisSummary' = None
       /\ endOfCallReport' = None
       /\ consultationSummary' = None
       /\ ~showSummary'
       /\ ~userEndedCall'
       /\ ~isCallActive'
       /\ ~isLoading'
       /\ ~isGeneratingSummary'
       /\ ~durationIntervalRef'
       /\ ~intervalRunning']_vars

\* the summary of a call with an utterance has been shown and closed
C18_Witness ==
  /\ ~showSummary
  /\ hist.callEndCalls >= 1
  /\ hist.msgs >= 1
  /\ tasks = {}
  /\ messages = <<>>
  /\ initialContext = <<>>
  /\ consultationSummary = None

\* a start request is accepted: startCall passes its guards and calls
\* vapi.start()
StartAccepted == StartRequest /\ session' = session + 1

\* C19: an accepted start leaves no field of an earlier session behind: no
\* messages, no analysis summary, no report, and a frozen duration of 0
C19_StartClearsEarlierSession ==
  [][StartAccepted =>
       /\ messages' = <<>>
       /\ vapiAnalysisSummary' = None
       /\ endOfCallReport' = None
       /\ finalCallDuration' = 0]_vars

\* a second session has started with the messages of the first one
C19_Witness ==
  /\ session = 2
  /\ hist.msgs = 0
  /\ Len(messages) >= 1
  /\ isLoading

\* a text with or without its closing period
Bare(text) == IF EndsWithPeriod(text) THEN SubSeq(text, 1, Len(text) - 1) ELSE text

FirstSentence == <<"Patient reports mild fatigue">>
SecondSentence == <<"Recommend rest and hydration">>

\* handleCallEnd resumes in a closure that holds messages, the two-sentence
\* analysis and no report summary, after the report has arrived
SummarizesTwoSentences(t) ==
  /\ HandleCallEndResume(t)
  /\ Len(t.closure.messages) > 0
  /\ t.closure.vapiAnalysisSummary = Some(TwoSentences)
  /\ ~Truthy(ReportSummary(t.closure))
  /\ IsSome(endOfCallReport)
  /\ delivered \cap PlainEndSignals = {}

\* C20: a summary computed from an analysis of exactly two sentences, with the
\* report arrived before any plain call-end, has the first sentence as its
\* symptoms and the second as its followUpContacts
C20_TwoSentencesSplit ==
  [][\A t \in tasks : SummarizesTwoSentences(t) =>
       /\ IsSome(consultationSummary')
       /\ Bare(Val(consultationSummary').symptoms) = FirstSentence
       /\ Bare(Val(consultationSummary').followUpContacts) = SecondSentence]_vars

\* a summary has been computed from the two-sentence analysis
C20_Witness ==
  /\ IsSome(consultationSummary)
  /\ IsSome(endOfCallReport)
  /\ vapiAnalysisSummary = Some(TwoSentences)
  /\ Val(consultationSummary).symptoms = TwoSentences
  /\ Val(consultationSummary).followUpContacts = GenericFollowUp

\* C21: every row of pastConsultations and every summary the component has
\* computed has a non-empty summary text and a non-empty disclaimer
C21_SummaryAndDisclaimerNonEmpty ==
  /\ \A row \in pastConsultations : Len(row.summary) > 0 /\ Len(row.disclaimer) > 0
  /\ IsSome(consultationSummary) =>
       /\ Len(Val(consultationSummary).summary) > 0
       /\ Len(Val(consultationSummary).disclaimer) > 0

\* a summary computed with an empty complaint has been stored, and a body
\* with an empty summary has been refused
C21_Witness ==
  /\ \E row \in pastConsultations : row.summary = <<"Voice consultation regarding: ">>
  /\ IsSome(consultationSummary)
  /\ IsSome(response)
  /\ Val(response).status = 400

\* the engine has supplied an analysis: the summary of an end-of-call report
\* or the summary of a call-analysis message
AnalysisPresent ==
  Truthy(vapiAnalysisSummary) \/
    (IsSome(endOfCallReport) /\ Truthy(Val(endOfCallReport).summary))

PatientTexts == MapContent(SelectSeq(messages, IsUserMessage))

AnalysisSentences ==
  IF IsSome(endOfCallReport) /\ Truthy(Val(endOfCallReport).summary) THEN <<>>
  ELSE IF Truthy(vapiAnalysisSummary) THEN Sentences(Val(vapiAnalysisSummary))
  ELSE <<>>

EngineTranscriptSupplied ==
  /\ "report" \in delivered
  /\ IsSome(endOfCallReport)
  /\ Truthy(Val(endOfCallReport).transcript)

\* handleCallEnd of the current session resumes and stores a summary
StoresSummary(t) ==
  /\ HandleCallEndResume(t)
  /\ t.sess = session
  /\ IsSome(generateConsultationSummary(t.closure, profile))

\* C23: the transcript of a stored summary is the transcript of the session's
\* end-of-call report when the engine supplied one, and the flattened
\* messages otherwise
C23_TranscriptFromEngineWhenSupplied ==
  [][\A t \in tasks : StoresSummary(t) =>
       Val(consultationSummary').transcript =
         IF EngineTranscriptSupplied
           THEN Val(Val(endOfCallReport).transcript)
           ELSE FlattenTranscript(messages)]_vars

\* a summary with the flattened messages as transcript is on record after the
\* engine's report had supplied a transcript
C23_Witness ==
  /\ IsSome(consultationSummary)
  /\ EngineTranscriptSupplied
  /\ hist.msgs >= 1
  /\ Val(consultationSummary).transcript = FlattenTranscript(messages)

\* today's (month, day) is earlier than the (month, day) of the date of birth
BeforeAnniversary(today, dateOfBirth) ==
  \/ today.month < dateOfBirth.month
  \/ today.month = dateOfBirth.month /\ today.day < dateOfBirth.day

\* C26: calculateAge returns the difference of the years, minus one exactly
\* when today's (month, day) is earlier than that of the date of birth
C26_CalendarAwareAge ==
  IsSome(ageCall) =>
    LET call == Val(ageCall) IN
      call.age = (call.today.year - call.dateOfBirth.year)
                   - (IF BeforeAnniversary(call.today, call.dateOfBirth) THEN 1 ELSE 0)

\* calculateAge was called on the day before the anniversary of the date of
\* birth and returned the plain difference of the years
C26_Witness ==
  /\ IsSome(ageCall)
  /\ Val(ageCall).dateOfBirth = [year |-> 2000, month |-> 3, day |-> 15]
  /\ Val(ageCall).today = [year |-> 2026, month |-> 3, day |-> 14]
  /\ Val(ageCall).age = 26

\* the headers of the sections and the labels of the fields of a context
ContextLabels ==
  { "PATIENT PROFILE:", "- Age: ", "- Gender: ", "- Location: ",
    "CURRENT MEDICAL CONDITIONS:", " (", " - Status: ", " - Since: ",
    "RECENT CONSULTATION HISTORY (Last 3):", "   - Symptoms: ", "   - Follow-up: ",
    "RESPONSE GUIDELINES:" }

IsContextLabel(token) == token \in ContextLabels

RECURSIVE Repeat(_, _)
Repeat(seq, n) == IF n = 0 THEN <<>> ELSE seq \o Repeat(seq, n - 1)

Min(a, b) == IF a < b THEN a ELSE b

\* the sections and fields of a context with nc conditions and np
\* consultations when nothing is omitted
StableStructure(nc, np) ==
  <<"PATIENT PROFILE:", "- Age: ", "- Gender: ", "- Location: ">>
  \o <<"CURRENT MEDICAL CONDITIONS:">> \o Repeat(<<" (", " - Status: ", " - Since: ">>, nc)
  \o <<"RECENT CONSULTATION HISTORY (Last 3):">>
  \o Repeat(<<"   - Symptoms: ">> \o <<"   - Follow-up: ">>, Min(np, 3))
  \o <<"RESPONSE GUIDELINES:">>

\* C27: whatever optional input is absent, the context contains the same
\* sequence of sections and fields
C27_StableContextStructure ==
  IsSome(contextCall) =>
    LET call == Val(contextCall) IN
      SelectSeq(call.context, IsContextLabel) =
        StableStructure(Len(call.conditions), Len(call.pastConsultations))

\* a context was generated without profile, conditions and consultations: it
\* has the guidelines and no other section
C27_Witness ==
  /\ IsSome(contextCall)
  /\ Val(contextCall).profile = None
  /\ Val(contextCall).conditions = <<>>
  /\ Val(contextCall).pastConsultations = <<>>
  /\ SelectSeq(Val(contextCall).context, IsContextLabel) = <<"RESPONSE GUIDELINES:">>

(***************************************************************************)
(* C24: the options of the engine start request.                           *)
(***************************************************************************)

\* The props the component was rendered with, as generatePatientContext
\* receives them (lines 25-27): the profile row and the two lists, here those
\* of a patient with no recorded condition and no earlier consultation.
PatientProfileOf(prof) ==
  IF prof = None THEN None
  ELSE Some([ dateOfBirth |-> None, gender |-> None,
              city |-> Some(<<Val(prof).city>>), state |-> Some(<<Val(prof).state>>),
              preferredLanguage |-> None, emergencyContactName |-> None,
              emergencyContactRelationship |-> None ])

\* const patientContext = generatePatientContext(profile, conditions,
\*                                               pastConsultations, initialContext)
patientContext ==
  generatePatientContext(PatientProfileOf(profile), <<>>, <<>>, initialContext,
                         ContextToday, FALSE)

\* C24: every accepted start hands the engine the grounding text that
\* generatePatientContext builds from the profile, the conditions, the past
\* consultations and the typed complaint.
C24_StartCarriesPatientContext ==
  [][StartAccepted => hist'.variableValues = Some(patientContext)]_vars

\* An accepted start with a typed complaint whose engine request carried no
\* variable values.
C24_Witness ==
  /\ engine = "starting"
  /\ Len(Trim(initialContext)) > 0
  /\ "CURRENT CONSULTATION CONTEXT:" \in
       { patientContext[i] : i \in 1..Len(patientContext) }
  /\ hist.variableValues = None

(***************************************************************************)
(* C25: conversation messages and the lifecycle.                           *)
(***************************************************************************)

\* the lifecycle flags, the duration timer and the two durations
lifecycle == <<isCallActive, isLoading, isGeneratingSummary, showSummary,
               durationIntervalRef, intervalRunning, orphanIntervals,
               callDuration, finalCallDuration>>

Dismissed == hist.dismissed

\* C28: from handleSummaryClose to the next accepted start the start card
\* stays: no grace timeout and no finalization still in flight sets
\* consultationSummary, shows the summary view again or sends a POST.
C28_DismissedStaysIdle ==
  [][Dismissed /\ ~StartAccepted =>
       /\ consultationSummary' = None
       /\ ~showSummary'
       /\ hist'.posts = hist.posts]_vars

\* A dismissed session with a grace timeout or a finalization still pending.
C28_Witness ==
  /\ Dismissed
  /\ consultationSummary = None
  /\ ~showSummary
  /\ \/ \E t \in graceTimers : t.sess = session
     \/ \E t \in tasks : t.sess = session

(***************************************************************************)
(* C29: one duration interval.                                             *)
(***************************************************************************)

\* the intervals created by setInterval and not yet cleared: the one the ref
\* holds, if it still runs, and those no ref points to any more
RunningIntervals == orphanIntervals + (IF intervalRunning THEN 1 ELSE 0)

\* C29: at most one duration interval is running at any time, also when the
\* start of a call is confirmed twice (event and message) and when a call is
\* started again after a failed or an ended session.
C29_AtMostOneInterval == RunningIntervals <= 1

\* The second session of the page, its start confirmed both by the event and
\* by the message, with its interval running.
C29_Witness ==
  /\ session = 2
  /\ engine = "live"
  /\ "call-start-msg" \in delivered
  /\ intervalRunning
  /\ RunningIntervals = 1

(***************************************************************************)
(* C30: the rows of one user are out of reach of the requests of another.  *)
(***************************************************************************)

\* the condition with this id exists and belongs to a user other than the
\* authenticated requester
OwnedByOther(id, user) ==
  /\ IsSome(user)
  /\ id \in 1..Len(medicalConditions)
  /\ IsSome(medicalConditions[id])
  /\ Val(medicalConditions[id]).userId # Val(user)

\* a consultations GET that succeeds returns rows of the requester only, and
\* every row that enters the table is the requester's, created by a POST
OwnConsultationsOnly ==
  LET r == Val(response') IN
  /\ r.route = "consultations" /\ r.method = "GET" /\ r.status = 200 =>
       \A row \in r.rows : row.userId = Val(r.user)
  /\ \A row \in pastConsultations' \ pastConsultations :
       /\ r.route = "consultations" /\ r.method = "POST" /\ r.status = 201
       /\ row.userId = Val(r.user)
  /\ pastConsultations \subseteq pastConsultations'

\* a request without a valid bearer token is answered 401 and changes no table
NoTokenNoEffect ==
  LET r == Val(response') IN
  r.user = None => r.status = 401 /\ UNCHANGED <<pastConsultations, medicalConditions>>

\* C30 as stated: under any sequence of requests of several users, a
\* consultations GET returns only rows the requester created, a conditions
\* PUT or DELETE that names a condition of another user is answered 404 and
\* leaves the table unchanged, and a request without a valid token is
\* answered 401 and changes nothing.
C30_PerUserIsolation ==
  [][IsSome(response') =>
       LET r == Val(response') IN
       /\ OwnConsultationsOnly
       /\ r.route = "conditions/[id]" /\ OwnedByOther(Val(r.target), r.user) =>
            r.status = 404 /\ UNCHANGED medicalConditions
       /\ NoTokenNoEffect]_vars

\* C30 as the routes behave: a PUT or DELETE that names a condition of
\* another user never succeeds and never changes the table; it is answered
\* 404, or 400 when the PUT body fails validation, or 500 when the database
\* call throws.  The other two parts hold as stated.
C30_PerUserIsolationByRefusal ==
  [][IsSome(response') =>
       LET r == Val(response') IN
       /\ OwnConsultationsOnly
       /\ r.route = "conditions/[id]" /\ OwnedByOther(Val(r.target), r.user) =>
            /\ r.status \in (IF r.method = "PUT" THEN {400, 404, 500} ELSE {404, 500})
            /\ UNCHANGED medicalConditions
       /\ NoTokenNoEffect]_vars

\* Both users have stored a consultation, and a request of one user that
\* named a condition of the other has just been answered 404.
C30_Witness ==
  /\ IsSome(response)
  /\ Val(response).route = "conditions/[id]"
  /\ Val(response).status = 404
  /\ OwnedByOther(Val(Val(response).target), Val(response).user)
  /\ {row.userId : row \in pastConsultations} = Users

====
